---- MODULE Spec2Model ----
(***************************************************************************)
(* Model of python-publisher/main.py: MessagePublisher.                   *)
(* One sequential main thread (run) whose position is pc, plus the        *)
(* asynchronous signal handler, which CPython runs between two bytecodes  *)
(* of the main thread, i.e. between any two steps below.                  *)
(***************************************************************************)
EXTENDS Integers, Sequences, FiniteSets, TLC

(* ---------------- bounds of the model ---------------- *)
\* cap on the number of messages built in one run (message_count is unbounded)
MaxMessages == 2
\* cap on the number of signal deliveries in one run
MaxSignals == 2

(* ---------------- program constants ---------------- *)
\* a retry budget one attempt short
max_retries_short == 5 - 1
\* max_retries = 5
max_retries == 5
\* time.sleep(5) after a failed attempt
RetryDelay == 5
\* time.sleep(1) after an unexpected error
ErrorDelay == 1
\* signal.SIGINT, signal.SIGTERM
SIGINT == 2
SIGTERM == 15
HandledSignals == {SIGINT, SIGTERM}

\* values PATTERN may take: the three documented ones and any other string
Patterns == {"pubsub", "queue", "both", "other"}
\* values PUBLISH_INTERVAL takes in the model: the default 2.0, which differs
\* from both fixed delays
Intervals == {2}

\* the publish test also accepting an undocumented mode
PublishMethodsWithOther == {"pubsub", "both", "other"}
\* method in ['pubsub', 'both']
PublishMethods == {"pubsub", "both"}
\* the append test also accepting 'pubsub'
QueueMethodsAll == {"queue", "both", "pubsub"}
\* method in ['queue', 'both']
QueueMethods == {"queue", "both"}

\* outcomes of one broker call: it returns, raises redis.RedisError, or raises
\* some other Exception
CallOutcomes == {"ok", "redis_error", "error"}
\* outcomes of redis.Redis(...) + ping() inside connect_to_redis
ConnectOutcomes == {"ok", "redis_error"}

VARIABLES
    pc,               \* position of the main thread in run()
    pattern,          \* self.pattern
    publish_interval, \* self.publish_interval
    running,          \* self.running
    message_count,    \* self.message_count
    redis_client,     \* self.redis_client: "None", "client" or "closed"
    connected,        \* a ping() on self.redis_client has succeeded
    attempt,          \* loop variable of the retry for-loop
    connectLog,       \* outcome of each connect_to_redis call made, in order
    sleeps,           \* the time.sleep calls made, in order: [site, dur]
    message,          \* local variable message of run(), or NoMessage
    message_json,     \* local variable message_json of publish_message
    result,           \* outcome of the last publish_message call
    calls,            \* broker calls made: [op, key, payload, outcome]
    channel,          \* payloads the broker accepted on channel 'messages'
    message_queue,    \* contents of the broker list 'message_queue'
    built,            \* sequence numbers returned by create_message, in order
    closeCount,       \* number of redis_client.close() calls
    exitStatus,       \* process exit status, -1 while the process lives
    signals,          \* signums delivered, in order
    sigPc,            \* pc of the main thread when the first signal arrived
    sigCount,         \* message_count when the first signal arrived
    reported          \* the total printed at shutdown, -1 before

vars == <<pc, pattern, publish_interval, running, message_count, redis_client,
          connected, attempt, connectLog, sleeps, message, message_json, result,
          calls, channel, message_queue, built, closeCount, exitStatus,
          signals, sigPc, sigCount, reported>>

NoMessage == [id |-> 0, timestamp |-> 0, message |-> <<"", 0>>,
              sender |-> "", count |-> 0]
NoJson == <<>>

RECURSIVE SumSeq(_)
SumSeq(s) == IF s = <<>> THEN 0 ELSE Head(s).dur + SumSeq(Tail(s))

\* datetime.now(): the time slept so far
Now == SumSeq(sleeps)

\* json.dumps(message): the record serialized as its key/value pairs in order
json_dumps(m) ==
    << <<"id", m.id>>, <<"timestamp", m.timestamp>>, <<"message", m.message>>,
       <<"sender", m.sender>>, <<"count", m.count>> >>

\* the 'count' field a payload carries
PayloadCount(p) == p[5][2]

Init ==
    /\ pc = "start"
    /\ pattern \in Patterns
    /\ publish_interval \in Intervals
    /\ running = TRUE
    /\ message_count = 0
    /\ redis_client = "None"
    /\ connected = FALSE
    /\ attempt = 0
    /\ connectLog = <<>>
    /\ sleeps = <<>>
    /\ message = NoMessage
    /\ message_json = NoJson
    /\ result = "none"
    /\ calls = <<>>
    /\ channel = <<>>
    /\ message_queue = <<>>
    /\ built = <<>>
    /\ closeCount = 0
    /\ exitStatus = -1
    /\ signals = <<>>
    /\ sigPc = "none"
    /\ sigCount = -1
    /\ reported = -1

(* ---------------- signal handler (lines 38-40) ---------------- *)
\* a handler that toggles the flag
HandlerValueToggle == ~running

\* the value _signal_handler stores into self.running
HandlerValue == FALSE

\* _signal_handler(signum, frame): runs between two steps of the main thread
\* for as long as the process lives
SignalHandler(signum) ==
    /\ exitStatus = -1
    /\ Len(signals) < MaxSignals
    /\ running' = HandlerValue
    /\ signals' = Append(signals, signum)
    /\ sigPc' = IF signals = <<>> THEN pc ELSE sigPc
    /\ sigCount' = IF signals = <<>> THEN message_count ELSE sigCount
    /\ UNCHANGED <<reported, pc, pattern, publish_interval, message_count, redis_client,
                   connected, attempt, connectLog, sleeps, message, message_json,
                   result, calls, channel, message_queue, built, closeCount,
                   exitStatus>>

(* ---------------- run(): connection retry (lines 110-123) ---------------- *)
\* entry of run(): the three start-up lines, then the first iteration of
\* for attempt in range(1, max_retries + 1)
RunStart ==
    /\ pc = "start"
    /\ pc' = "connect"
    /\ attempt' = 1
    /\ UNCHANGED <<reported, pattern, publish_interval, running, message_count,
                   redis_client, connected, connectLog, sleeps, message,
                   message_json, result, calls, channel, message_queue, built,
                   closeCount, exitStatus, signals, sigPc, sigCount>>

\* the for loop without its break: a successful attempt is retried as well
AfterConnectNoBreak(ok) == "retry_sleep"

\* if self.connect_to_redis(): break  /  otherwise fall to the retry sleep
AfterConnect(ok) == IF ok THEN "loop" ELSE "retry_sleep"

\* connect_to_redis(): a new client is stored, then ping() returns or raises
\* redis.RedisError, which is caught and turned into False
ConnectToRedis(outcome) ==
    /\ pc = "connect"
    /\ connectLog' = Append(connectLog, outcome)
    /\ redis_client' = "client"
    /\ connected' = (outcome = "ok")
    /\ pc' = AfterConnect(outcome = "ok")
    /\ UNCHANGED <<reported, pattern, publish_interval, running, message_count, attempt,
                   sleeps, message, message_json, result, calls, channel,
                   message_queue, built, closeCount, exitStatus, signals,
                   sigPc, sigCount>>

\* a retry loop that gives up once the flag is cleared
AfterRetrySleepObserving(a) ==
    IF a < max_retries /\ running THEN "connect" ELSE "fatal"

\* the for statement after one iteration's body ended without break: the next
\* value of range(1, max_retries + 1), or the else clause when it is exhausted
AfterRetrySleep(a) == IF a < max_retries THEN "connect" ELSE "fatal"

\* time.sleep(5) after a failed attempt, then the for statement advances
RetrySleep ==
    /\ pc = "retry_sleep"
    /\ sleeps' = Append(sleeps, [site |-> "retry", dur |-> RetryDelay])
    /\ pc' = AfterRetrySleep(attempt)
    /\ attempt' = IF attempt < max_retries THEN attempt + 1 ELSE attempt
    /\ UNCHANGED <<reported, pattern, publish_interval, running, message_count,
                   redis_client, connected, connectLog, message, message_json,
                   result, calls, channel, message_queue, built, closeCount,
                   exitStatus, signals, sigPc, sigCount>>

\* else clause of the for loop: sys.exit(1)
FatalExit ==
    /\ pc = "fatal"
    /\ pc' = "exited"
    /\ exitStatus' = 1
    /\ UNCHANGED <<reported, pattern, publish_interval, running, message_count,
                   redis_client, connected, attempt, connectLog, sleeps, message,
                   message_json, result, calls, channel, message_queue, built,
                   closeCount, signals, sigPc, sigCount>>

(* ---------------- run(): publishing loop (lines 126-135) ---------------- *)
\* The except KeyboardInterrupt clause (lines 131-132) has no action: __init__
\* replaces the SIGINT handler that raises KeyboardInterrupt by _signal_handler,
\* and nothing in the loop body raises it.
\* a loop that never looks at the flag
LoopCondIgnored(r) == TRUE

\* while self.running
LoopCond(r) == r

\* the test of the while statement; the model builds at most MaxMessages
\* messages, so the loop is not entered again once the cap is reached
LoopTest ==
    /\ pc = "loop"
    /\ LoopCond(running) => message_count < MaxMessages
    /\ pc' = IF LoopCond(running) THEN "create" ELSE "report"
    /\ UNCHANGED <<reported, pattern, publish_interval, running, message_count,
                   redis_client, connected, attempt, connectLog, sleeps, message,
                   message_json, result, calls, channel, message_queue, built,
                   closeCount, exitStatus, signals, sigPc, sigCount>>

\* a counter stepping by two
NextCountSkip(c) == c + 2

\* self.message_count += 1
NextCount(c) == c + 1

\* the dict create_message returns for sequence number c; uuid.uuid4() is a
\* value no earlier message carries
NewMessage(c) ==
    [id |-> c, timestamp |-> Now, message |-> <<"Hello from Python #", c>>,
     sender |-> "python-publisher", count |-> c]

\* message = self.create_message()
CreateMessage ==
    /\ pc = "create"
    /\ message_count' = NextCount(message_count)
    /\ message' = NewMessage(message_count')
    /\ built' = Append(built, message'.count)
    /\ pc' = "dispatch"
    /\ UNCHANGED <<reported, pattern, publish_interval, running, redis_client, connected,
                   attempt, connectLog, sleeps, message_json, result, calls,
                   channel, message_queue, closeCount, exitStatus, signals,
                   sigPc, sigCount>>

(* ---------------- publish_message (lines 82-104) ---------------- *)
\* the two if statements in the opposite order
OpsOfSwapped(method) ==
    (IF method \in QueueMethods THEN <<"rpush">> ELSE <<>>)
    \o (IF method \in PublishMethods THEN <<"publish">> ELSE <<>>)

\* the broker operations publish_message performs for a method, in the order
\* of its two if statements
OpsOf(method) ==
    (IF method \in PublishMethods THEN <<"publish">> ELSE <<>>)
    \o (IF method \in QueueMethods THEN <<"rpush">> ELSE <<>>)

\* a dispatch that stops between its operations once the flag is cleared
OpAtCancellable(method, i) ==
    IF running /\ i <= Len(OpsOf(method)) THEN OpsOf(method)[i] ELSE "returned"

\* where publish_message continues after operation number i of its method
\* returned: at the next operation, or at return True
OpAt(method, i) ==
    IF i <= Len(OpsOf(method)) THEN OpsOf(method)[i] ELSE "returned"

\* position of op in OpsOf(method)
OpIndex(method, op) ==
    CHOOSE i \in 1..Len(OpsOf(method)) : OpsOf(method)[i] = op

\* a broker failure after which the same message is dispatched again
AfterRedisErrorRetry == "dispatch"
\* an unexpected error followed by the ordinary interval sleep
AfterUnexpectedInterval == "sleep_interval"
\* a broker failure that ends the publishing loop
AfterRedisErrorStop == "report"
\* a broker failure that is swallowed
RedisErrorResultSwallowed == "True"
\* an unexpected error that escapes run()
AfterUnexpectedCrash == "fatal"

\* except redis.RedisError: return False
AfterRedisError == "returned"
\* the value returned from the except clause
RedisErrorResult == "False"

\* except Exception in run(): the error escaped publish_message
AfterUnexpected == "error_sleep"

\* the payload passed to rpush
RpushPayload(mj) == mj

\* entry of publish_message: method = self.pattern, message_json =
\* json.dumps(message), then the first if statement that applies
PublishMessageEnter ==
    /\ pc = "dispatch"
    /\ message_json' = json_dumps(message)
    /\ pc' = OpAt(pattern, 1)
    /\ result' = IF OpAt(pattern, 1) = "returned" THEN "True" ELSE "none"
    /\ UNCHANGED <<reported, pattern, publish_interval, running, message_count,
                   redis_client, connected, attempt, connectLog, sleeps, message,
                   calls, channel, message_queue, built, closeCount,
                   exitStatus, signals, sigPc, sigCount>>

\* pc and result after a broker call op ended with outcome
CallNextPc(op, outcome) ==
    CASE outcome = "ok" -> OpAt(pattern, OpIndex(pattern, op) + 1)
      [] outcome = "redis_error" -> AfterRedisError
      [] OTHER -> AfterUnexpected

CallResult(op, outcome) ==
    CASE outcome = "ok" ->
            IF OpAt(pattern, OpIndex(pattern, op) + 1) = "returned"
            THEN "True" ELSE "none"
      [] outcome = "redis_error" -> RedisErrorResult
      [] OTHER -> "raised"

\* self.redis_client.publish('messages', message_json)
Publish(outcome) ==
    /\ pc = "publish"
    /\ calls' = Append(calls, [op |-> "publish", key |-> "messages",
                               payload |-> message_json, outcome |-> outcome])
    /\ channel' = IF outcome = "ok" THEN Append(channel, message_json)
                  ELSE channel
    /\ pc' = CallNextPc("publish", outcome)
    /\ result' = CallResult("publish", outcome)
    /\ UNCHANGED <<reported, pattern, publish_interval, running, message_count,
                   redis_client, connected, attempt, connectLog, sleeps, message,
                   message_json, message_queue, built, closeCount, exitStatus,
                   signals, sigPc, sigCount>>

\* self.redis_client.rpush('message_queue', message_json)
Rpush(outcome) ==
    /\ pc = "rpush"
    /\ calls' = Append(calls, [op |-> "rpush", key |-> "message_queue",
                               payload |-> RpushPayload(message_json),
                               outcome |-> outcome])
    /\ message_queue' = IF outcome = "ok"
                        THEN Append(message_queue, RpushPayload(message_json))
                        ELSE message_queue
    /\ pc' = CallNextPc("rpush", outcome)
    /\ result' = CallResult("rpush", outcome)
    /\ UNCHANGED <<reported, pattern, publish_interval, running, message_count,
                   redis_client, connected, attempt, connectLog, sleeps, message,
                   message_json, channel, built, closeCount, exitStatus,
                   signals, sigPc, sigCount>>

\* publish_message returned (True or False); run() ignores the value and goes
\* on to time.sleep(self.publish_interval)
PublishReturned ==
    /\ pc = "returned"
    /\ pc' = "sleep_interval"
    /\ UNCHANGED <<reported, pattern, publish_interval, running, message_count,
                   redis_client, connected, attempt, connectLog, sleeps, message,
                   message_json, result, calls, channel, message_queue, built,
                   closeCount, exitStatus, signals, sigPc, sigCount>>

\* time.sleep(self.publish_interval); a signal handled during the sleep does
\* not shorten it; then back to the while test
IntervalSleep ==
    /\ pc = "sleep_interval"
    /\ sleeps' = Append(sleeps, [site |-> "interval", dur |-> publish_interval])
    /\ pc' = "loop"
    /\ UNCHANGED <<reported, pattern, publish_interval, running, message_count,
                   redis_client, connected, attempt, connectLog, message,
                   message_json, result, calls, channel, message_queue, built,
                   closeCount, exitStatus, signals, sigPc, sigCount>>

\* except Exception: log, time.sleep(1), then back to the while test
ErrorSleep ==
    /\ pc = "error_sleep"
    /\ sleeps' = Append(sleeps, [site |-> "error", dur |-> ErrorDelay])
    /\ pc' = "loop"
    /\ UNCHANGED <<reported, pattern, publish_interval, running, message_count,
                   redis_client, connected, attempt, connectLog, message,
                   message_json, result, calls, channel, message_queue, built,
                   closeCount, exitStatus, signals, sigPc, sigCount>>

(* ---------------- run(): shutdown (lines 137-139) ---------------- *)
\* a total that counts only the payloads the broker accepted
ReportValueAccepted == Len(channel) + Len(message_queue)

\* {self.message_count} in the shutdown line
ReportValue == message_count

\* print("Publisher stopped. Total messages sent: ...")
Report ==
    /\ pc = "report"
    /\ pc' = "close"
    /\ reported' = ReportValue
    /\ UNCHANGED <<pattern, publish_interval, running, message_count,
                   redis_client, connected, attempt, connectLog, sleeps, message,
                   message_json, result, calls, channel, message_queue, built,
                   closeCount, exitStatus, signals, sigPc, sigCount>>

\* if self.redis_client: self.redis_client.close(); run() returns and the
\* interpreter exits with status 0
CloseAndExit ==
    /\ pc = "close"
    /\ redis_client' = IF redis_client # "None" THEN "closed" ELSE redis_client
    /\ closeCount' = IF redis_client # "None" THEN closeCount + 1
                     ELSE closeCount
    /\ pc' = "exited"
    /\ exitStatus' = 0
    /\ UNCHANGED <<reported, pattern, publish_interval, running, message_count,
                   connected, attempt, connectLog, sleeps, message, message_json,
                   result, calls, channel, message_queue, built, signals,
                   sigPc, sigCount>>

\* one step of the main thread
Main ==
    \/ RunStart
    \/ \E o \in ConnectOutcomes : ConnectToRedis(o)
    \/ RetrySleep
    \/ FatalExit
    \/ LoopTest
    \/ CreateMessage
    \/ PublishMessageEnter
    \/ \E o \in CallOutcomes : Publish(o)
    \/ \E o \in CallOutcomes : Rpush(o)
    \/ PublishReturned
    \/ IntervalSleep
    \/ ErrorSleep
    \/ Report
    \/ CloseAndExit

Next ==
    \/ Main
    \/ \E s \in HandledSignals : SignalHandler(s)

Spec == Init /\ [][Next]_vars

\* the main thread keeps running: every call it makes returns
FairSpec == Spec /\ WF_vars(Main)

TypeOK ==
    /\ pc \in {"start", "connect", "retry_sleep", "fatal", "loop", "create",
               "dispatch", "publish", "rpush", "returned", "sleep_interval",
               "error_sleep", "report", "close", "exited"}
    /\ pattern \in Patterns
    /\ running \in BOOLEAN
    /\ message_count \in 0..MaxMessages
    /\ redis_client \in {"None", "client", "closed"}
    /\ attempt \in 0..max_retries
    /\ exitStatus \in {-1, 0, 1}

(* ---------------- helpers of the properties ---------------- *)
AllFailed == \A i \in 1..Len(connectLog) : connectLog[i] # "ok"

\* the time.sleep calls made at one call site
SleepsAt(site) == SelectSeq(sleeps, LAMBDA e : e.site = site)

\* the main thread is in, or past, the publishing loop
InPublishingPhase ==
    pc \in {"loop", "create", "dispatch", "publish", "rpush", "returned",
            "sleep_interval", "error_sleep", "report", "close"}
    \/ (pc = "exited" /\ exitStatus = 0)

(* ---------------- C1 ---------------- *)
\* C1: when every connection attempt fails, run() makes exactly 5 attempts and
\* then exits with status 1; as long as no attempt has succeeded nothing is
\* built, published or appended; status 1 is reached only after 5 failures.
C1_FatalAfterFiveAttempts ==
    /\ [](AllFailed => /\ Len(connectLog) <= 5
                       /\ message_count = 0 /\ built = <<>> /\ calls = <<>>
                       /\ channel = <<>> /\ message_queue = <<>>
                       /\ (pc = "exited" => Len(connectLog) = 5
                                            /\ exitStatus = 1))
    /\ [](exitStatus = 1 => AllFailed /\ Len(connectLog) = 5)
    /\ <>(~AllFailed \/ (Len(connectLog) = 5 /\ exitStatus = 1))

C1_Witness ==
    /\ AllFailed /\ Len(connectLog) = 5 /\ pc = "exited" /\ exitStatus = 1

(* ---------------- C2 ---------------- *)
\* C2: for every k in 1..5, when attempts 1..k-1 failed and attempt k
\* succeeded, exactly k attempts were made and none follows, exactly k-1 retry
\* delays of 5 were taken, and the main thread is in the publishing loop.
C2_SucceedsOnAttemptK ==
    \A k \in 1..5 :
        (/\ Len(connectLog) >= k
         /\ connectLog[k] = "ok"
         /\ \A j \in 1..(k - 1) : connectLog[j] # "ok")
        => /\ Len(connectLog) = k
           /\ Len(SleepsAt("retry")) = k - 1
           /\ \A i \in 1..(k - 1) : sleeps[i] = [site |-> "retry", dur |-> 5]
           /\ InPublishingPhase

C2_Witness ==
    /\ Len(connectLog) = 5 /\ connectLog[5] = "ok"
    /\ Len(SleepsAt("retry")) = 4
    /\ pc = "create"

(* ---------------- helpers over the call log ---------------- *)
\* indices of the broker calls made for message number n
CallsOf(n) == {i \in 1..Len(calls) : PayloadCount(calls[i].payload) = n}

\* the dispatch of message n made a call op that ended with outcome
Had(n, op, outcome) ==
    \E i \in CallsOf(n) : calls[i].op = op /\ calls[i].outcome = outcome

Attempted(n, op) == \E i \in CallsOf(n) : calls[i].op = op

\* publish_message has ended for message n, by return or by raising
DispatchEnded(n) ==
    \/ n < message_count
    \/ n = message_count
       /\ pc \in {"returned", "sleep_interval", "error_sleep", "loop",
                  "report", "close", "exited"}

RangeOf(s) == {s[i] : i \in 1..Len(s)}

(* ---------------- C3 ---------------- *)
\* C3 as stated: in mode both, publish and append are independent, so a broker
\* failure of the publish does not keep the append of the same message from
\* being attempted (which is what makes 'publish fails, append succeeds'
\* possible).
C3_Original ==
    pattern = "both" =>
        \A n \in 1..message_count :
            (DispatchEnded(n) /\ Had(n, "publish", "redis_error"))
            => Attempted(n, "rpush")

\* C3 amended: in mode both the append is attempted only after the publish
\* succeeded; a broker failure of the publish ends the dispatch with no append;
\* every broker failure makes publish_message return False; a publish that
\* succeeded stays delivered when the append fails.
C3_Amended ==
    pattern = "both" =>
        /\ \A n \in 1..message_count :
              /\ Attempted(n, "rpush") => Had(n, "publish", "ok")
              /\ Had(n, "publish", "redis_error") => ~Attempted(n, "rpush")
              /\ Had(n, "publish", "ok") =>
                    \E i \in CallsOf(n) : calls[i].payload \in RangeOf(channel)
        /\ (pc = "returned" /\ calls # <<>>) =>
              (result = "False" <=> calls[Len(calls)].outcome = "redis_error")
        /\ (pc = "returned" /\ calls # <<>>) =>
              (result = "True" <=> /\ Had(message_count, "publish", "ok")
                                   /\ Had(message_count, "rpush", "ok"))

C3_Witness ==
    /\ pattern = "both"
    /\ pc = "returned"
    /\ result = "False"
    /\ Had(1, "publish", "redis_error")
    /\ Had(2, "publish", "ok")
    /\ Had(2, "rpush", "redis_error")

(* ---------------- C4 ---------------- *)
\* C4: the broker connection handle is released exactly once on every exit
\* path: never twice, and at process exit (status 0 or 1) it has been released.
C4_ReleasedExactlyOnce ==
    /\ closeCount <= 1
    /\ (pc = "exited" /\ redis_client # "None") => closeCount = 1

(* ---------------- C5 ---------------- *)
\* C5: when the first signal arrives while the main thread is in the interval
\* sleep, that sleep is completed in full, the loop exits without building or
\* dispatching another message, and the connection is closed exactly once.
C5_SignalDuringIntervalSleep ==
    sigPc = "sleep_interval" =>
        /\ ~running
        /\ pc \in {"sleep_interval", "loop", "report", "close", "exited"}
        /\ message_count = sigCount
        /\ Len(built) = sigCount
        /\ \A i \in 1..Len(calls) : PayloadCount(calls[i].payload) <= sigCount
        /\ pc # "sleep_interval" =>
              /\ sleeps[Len(sleeps)] =
                    [site |-> "interval", dur |-> publish_interval]
              /\ Len(SleepsAt("interval")) + Len(SleepsAt("error")) = sigCount
        /\ closeCount = (IF pc = "exited" THEN 1 ELSE 0)

C5_Witness ==
    /\ sigPc = "sleep_interval"
    /\ sigCount = 1
    /\ pc = "exited"
    /\ closeCount = 1

(* ---------------- C6 ---------------- *)
\* C6: once a connection is established and a signal has been delivered, the
\* process eventually exits with status 0, whatever the dispatches did.
C6_SignalLeadsToCleanExit ==
    (connected /\ signals # <<>>) ~> (pc = "exited" /\ exitStatus = 0)

C6_Witness ==
    /\ connected /\ signals # <<>>
    /\ pc = "exited" /\ exitStatus = 0
    /\ \E i \in 1..Len(calls) : calls[i].outcome = "error"
    /\ \E i \in 1..Len(calls) : calls[i].outcome = "redis_error"

(* ---------------- C7 ---------------- *)
\* C7: the sequence numbers returned by the successive create_message calls are
\* 1, 2, ..., N in this order, whatever happened to the earlier dispatches.
C7_SequenceNumbersGapFree ==
    /\ Len(built) = message_count
    /\ \A i \in 1..Len(built) : built[i] = i
    /\ message_count > 0 => message.count = message_count

C7_Witness ==
    /\ built = <<1, 2>>
    /\ \E i \in CallsOf(1) : calls[i].outcome # "ok"

(* ---------------- C8 ---------------- *)
\* C8: in mode pubsub every dispatch makes exactly one call, a publish on
\* 'messages', and no rpush is ever made; in mode queue every dispatch makes
\* exactly one call, an rpush on 'message_queue', and no publish is ever made.
C8_ModeSelectsOperations ==
    /\ pattern = "pubsub" =>
          /\ \A i \in 1..Len(calls) :
                calls[i].op = "publish" /\ calls[i].key = "messages"
          /\ message_queue = <<>>
          /\ \A n \in 1..message_count :
                DispatchEnded(n) => Cardinality(CallsOf(n)) = 1
    /\ pattern = "queue" =>
          /\ \A i \in 1..Len(calls) :
                calls[i].op = "rpush" /\ calls[i].key = "message_queue"
          /\ channel = <<>>
          /\ \A n \in 1..message_count :
                DispatchEnded(n) => Cardinality(CallsOf(n)) = 1

C8_Witness ==
    /\ pattern = "queue"
    /\ Len(calls) = 2
    /\ Len(message_queue) = 2
    /\ DispatchEnded(2)

(* ---------------- C9 ---------------- *)
\* C9: in mode both, every append call directly follows the publish call of
\* the same message and carries the same payload; the first call made for a
\* message is its publish on 'messages', the append goes to 'message_queue'.
C9_PublishBeforeAppend ==
    pattern = "both" =>
        /\ \A j \in 1..Len(calls) :
              calls[j].op = "rpush" =>
                  /\ j > 1
                  /\ calls[j - 1].op = "publish"
                  /\ calls[j - 1].key = "messages"
                  /\ calls[j].key = "message_queue"
                  /\ calls[j - 1].payload = calls[j].payload
        /\ \A n \in 1..message_count :
              CallsOf(n) # {} =>
                  LET first == CHOOSE i \in CallsOf(n) :
                                   \A k \in CallsOf(n) : i <= k
                  IN  calls[first].op = "publish"
        /\ \A i \in CallsOf(message_count) :
              calls[i].payload = json_dumps(message)

C9_Witness ==
    /\ pattern = "both"
    /\ Len(calls) = 2
    /\ calls[1].op = "publish" /\ calls[2].op = "rpush"
    /\ message_queue = channel /\ Len(channel) = 1

(* ---------------- C10 ---------------- *)
\* C10: a broker failure of a publish or append call makes publish_message
\* return False; from there the loop takes its interval sleep, tests the flag
\* and, the flag being true, builds and dispatches the next message.
C10_BrokerFailureKeepsLoop ==
    [][/\ (/\ pc \in {"publish", "rpush"}
           /\ Len(calls') = Len(calls) + 1
           /\ calls'[Len(calls')].outcome = "redis_error")
          => (pc' = "returned" /\ result' = "False")
       /\ (pc = "returned" /\ pc' # pc) => pc' = "sleep_interval"
       /\ (pc = "sleep_interval" /\ pc' # pc) =>
             /\ pc' = "loop"
             /\ sleeps' = Append(sleeps, [site |-> "interval",
                                          dur |-> publish_interval])
       /\ (pc = "loop" /\ running /\ pc' # pc) => pc' = "create"
       /\ (pc = "create" /\ pc' # pc) =>
             (pc' = "dispatch" /\ message_count' = message_count + 1)
       /\ (pc = "dispatch" /\ pc' # pc) =>
             pc' \in {"publish", "rpush", "returned"}
      ]_vars

C10_Witness ==
    /\ message_count = 2
    /\ Had(1, "publish", "redis_error") \/ Had(1, "rpush", "redis_error")
    /\ Len(SleepsAt("interval")) = 1
    /\ pc \in {"publish", "rpush"}

(* ---------------- helpers over the phases ---------------- *)
ConnectingPcs == {"start", "connect", "retry_sleep", "fatal"}
DispatchPcs == {"dispatch", "publish", "rpush", "returned"}
PublishingPcs == {"loop", "create", "dispatch", "publish", "rpush", "returned",
                  "sleep_interval", "error_sleep"}

\* the step just made a broker call that ended with outcome
CallEnded(outcome) ==
    /\ Len(calls') = Len(calls) + 1
    /\ calls'[Len(calls')].outcome = outcome

(* ---------------- C11 ---------------- *)
\* C11: the process ends in exactly two ways: status 0, only after a
\* connection was established and the while test saw the flag false; status 1,
\* only out of the connecting phase after 5 failed attempts. A failed or
\* raising broker call in the publishing phase never leads to an exit.
C11_TwoTerminalOutcomes ==
    /\ [](pc = "exited" <=> exitStatus \in {0, 1})
    /\ [](exitStatus = 0 => connected /\ ~running /\ reported = message_count)
    /\ [](exitStatus = 1 => /\ ~connected /\ Len(connectLog) = 5
                            /\ message_count = 0 /\ reported = -1)
    /\ [][/\ (exitStatus' = 1 /\ exitStatus # 1) => pc = "fatal"
          /\ (exitStatus' = 0 /\ exitStatus # 0) => pc = "close"
          /\ (pc' = "fatal" /\ pc # "fatal") => pc = "retry_sleep"
          /\ (pc' = "report" /\ pc # "report") => (pc = "loop" /\ ~running)
          /\ (pc' = "close" /\ pc # "close") => pc = "report"
          /\ (CallEnded("redis_error") \/ CallEnded("error")) =>
                pc' \in PublishingPcs
         ]_vars

C11_Witness ==
    /\ pc = "exited" /\ exitStatus = 0
    /\ \E i \in 1..Len(calls) : calls[i].outcome = "error"

(* ---------------- C12 ---------------- *)
\* C12: the total printed at shutdown is the sequence counter, which is the
\* number of messages built, i.e. of dispatch cycles started, the failed ones
\* included; in mode pubsub a run stopped after k iterations has made exactly
\* k publish calls and prints k.
C12_ReportedCountIsCounter ==
    reported # -1 =>
        /\ reported = message_count
        /\ reported = Len(built)
        /\ reported = Cardinality({n \in 1..message_count : DispatchEnded(n)})
        /\ reported = Len(SleepsAt("interval")) + Len(SleepsAt("error"))
        /\ pattern = "pubsub" =>
              /\ Len(calls) = reported
              /\ \A i \in 1..Len(calls) :
                    calls[i].op = "publish" /\ calls[i].key = "messages"
              /\ message_queue = <<>>

C12_Witness ==
    /\ pattern = "pubsub"
    /\ reported = 2
    /\ Len(calls) = 2
    /\ calls[1].outcome = "redis_error"
    /\ pc = "exited"

(* ---------------- C13 ---------------- *)
\* C13: the flag is true until the first signal and false from then on: it
\* goes from true to false at most once, never back, whatever the number and
\* timing of the signals, and only a signal delivery changes it.
C13_RunningFlagOneWay ==
    /\ [](running <=> signals = <<>>)
    /\ [][/\ (running' # running) =>
                (running /\ ~running' /\ Len(signals') = Len(signals) + 1)
          /\ ~running => ~running'
         ]_vars

C13_Witness ==
    /\ ~running
    /\ Len(signals) = 2
    /\ signals[1] # signals[2]
    /\ pc \in PublishingPcs

(* ---------------- C14 ---------------- *)
\* C14: a retry delay is taken only between a failed attempt and the next
\* attempt, so there is always one delay fewer than attempts once an attempt
\* has been made and the thread is not sleeping before the next one: no delay
\* follows the 5th failed attempt.
C14_NoDelayAfterLastAttempt ==
    /\ Len(SleepsAt("retry")) <= 4
    /\ (pc = "fatal" \/ exitStatus = 1) => Len(SleepsAt("retry")) = 4

(* ---------------- C15 ---------------- *)
\* C15: a signal delivery changes nothing but the flag (no broker call, no
\* move of the main thread); a dispatch in flight when the first signal
\* arrives still performs every operation of its mode unless a call of its own
\* fails; the loop is left only by the while test.
C15_SignalDoesNotInterruptDispatch ==
    /\ [][/\ signals' # signals =>
                UNCHANGED <<pc, calls, channel, message_queue, message,
                            message_json, message_count, result, sleeps,
                            redis_client, closeCount, exitStatus, built>>
          /\ (pc \in PublishingPcs /\ pc' \notin PublishingPcs) =>
                (pc = "loop" /\ pc' = "report")
         ]_vars
    /\ []((sigPc \in DispatchPcs /\ DispatchEnded(sigCount)
           /\ \A i \in CallsOf(sigCount) : calls[i].outcome = "ok")
          => /\ \A k \in 1..Len(OpsOf(pattern)) :
                    Had(sigCount, OpsOf(pattern)[k], "ok")
             /\ Cardinality(CallsOf(sigCount)) = Len(OpsOf(pattern)))

C15_Witness ==
    /\ pattern = "both"
    /\ sigPc = "rpush"
    /\ Had(sigCount, "publish", "ok")
    /\ Had(sigCount, "rpush", "ok")
    /\ pc = "exited"

(* ---------------- C16 ---------------- *)
\* C16: an unexpected error raised by a broker call of one iteration is caught
\* by run(): the thread sleeps 1 time unit, not the publish interval, returns
\* to the while test and, the flag being true, starts the next iteration; the
\* counter keeps the value it had and never decreases.
C16_UnexpectedErrorRecovered ==
    [][/\ CallEnded("error") =>
             /\ pc' = "error_sleep"
             /\ result' = "raised"
             /\ message_count' = message_count
       /\ (pc = "error_sleep" /\ pc' # pc) =>
             /\ pc' = "loop"
             /\ sleeps' = Append(sleeps, [site |-> "error", dur |-> 1])
             /\ message_count' = message_count
       /\ (pc' = "error_sleep" /\ pc # pc') => CallEnded("error")
       /\ (pc = "loop" /\ running /\ pc' # pc) => pc' = "create"
       /\ message_count' >= message_count
      ]_vars

C16_Witness ==
    /\ message_count = 2
    /\ \E i \in CallsOf(1) : calls[i].outcome = "error"
    /\ sleeps[Len(sleeps)] = [site |-> "error", dur |-> 1]
    /\ Len(SleepsAt("interval")) = 0
    /\ pc = "dispatch"

(* ---------------- C17 ---------------- *)
\* C17: when the first signal arrives during the connection-retry phase, the
\* retry loop goes on as without it, up to 5 attempts; nothing is built or
\* dispatched; after a successful attempt the process closes the connection
\* once and exits with status 0, printing a total of 0; after 5 failures it
\* exits with status 1.
C17_SignalWhileConnecting ==
    sigPc \in ConnectingPcs =>
        /\ message_count = 0 /\ built = <<>> /\ calls = <<>>
        /\ pc \in ConnectingPcs \cup {"loop", "report", "close", "exited"}
        /\ pc = "fatal" => (AllFailed /\ Len(connectLog) = 5)
        /\ pc = "exited" =>
              \/ /\ connected /\ exitStatus = 0
                 /\ closeCount = 1 /\ reported = 0
              \/ /\ AllFailed /\ Len(connectLog) = 5 /\ exitStatus = 1
                 /\ reported = -1

C17_Witness ==
    /\ sigPc = "retry_sleep"
    /\ Len(connectLog) = 3 /\ connected
    /\ pc = "exited" /\ exitStatus = 0 /\ reported = 0

(* ---------------- C18 ---------------- *)
\* C18: after the first signal arrives in the publishing phase, the loop
\* builds and dispatches one more message when the signal landed between the
\* while test and create_message, and none otherwise.
C18_AtMostOneMoreMessage ==
    sigPc \in PublishingPcs =>
        /\ message_count - sigCount \in {0, 1}
        /\ sigPc # "create" => message_count = sigCount
        /\ (sigPc = "create" /\ pc # "create") => message_count = sigCount + 1
        /\ \A i \in 1..Len(calls) :
              PayloadCount(calls[i].payload) <=
                  sigCount + (IF sigPc = "create" THEN 1 ELSE 0)

C18_Witness ==
    /\ sigPc = "create"
    /\ sigCount = 1
    /\ message_count = 2
    /\ CallsOf(2) # {}
    /\ pc = "exited"

(* ---------------- C19 ---------------- *)
\* C19: every sequence number is passed to publish at most once and to rpush
\* at most once; each create_message takes the next number whatever the last
\* dispatch did; the numbers held by message_queue are strictly increasing.
C19_NoRedelivery ==
    /\ \A n \in 1..message_count :
          /\ Cardinality({i \in CallsOf(n) : calls[i].op = "publish"}) <= 1
          /\ Cardinality({i \in CallsOf(n) : calls[i].op = "rpush"}) <= 1
    /\ \A i \in 1..Len(calls) : PayloadCount(calls[i].payload) <= message_count
    /\ \A i, j \in 1..Len(calls) :
          i < j => PayloadCount(calls[i].payload) <= PayloadCount(calls[j].payload)
    /\ \A i, j \in 1..Len(message_queue) :
          i < j => PayloadCount(message_queue[i]) < PayloadCount(message_queue[j])
    /\ \A i, j \in 1..Len(channel) :
          i < j => PayloadCount(channel[i]) < PayloadCount(channel[j])

C19_Witness ==
    /\ Had(1, "rpush", "redis_error")
    /\ Len(message_queue) = 1
    /\ PayloadCount(message_queue[1]) = 2

(* ---------------- C20 ---------------- *)
\* C20: with a mode that is none of pubsub, queue, both, no broker call is
\* ever made and every dispatch returns True, while each iteration still
\* takes the next sequence number; the total printed at shutdown is that
\* counter although nothing was sent.
C20_UnknownModeSendsNothing ==
    pattern \notin {"pubsub", "queue", "both"} =>
        /\ calls = <<>> /\ channel = <<>> /\ message_queue = <<>>
        /\ result \in {"none", "True"}
        /\ pc \in {"returned", "sleep_interval"} => result = "True"
        /\ pc # "error_sleep"
        /\ Len(built) = message_count
        /\ Len(SleepsAt("interval")) =
              message_count - (IF pc \in {"dispatch", "returned",
                                          "sleep_interval"} THEN 1 ELSE 0)
        /\ reported # -1 => reported = message_count

C20_Witness ==
    /\ pattern = "other"
    /\ reported = 2
    /\ calls = <<>>
    /\ result = "True"
    /\ pc = "exited"

====
